---- MODULE Spec2Model ----
(***************************************************************************)
(* bTCP: the client socket (btcp/client_socket.py), the server socket      *)
(* (btcp/server_socket.py) and the segment codec (btcp/btcp_socket.py),    *)
(* running over a lossy layer that carries raw segments.                   *)
(*                                                                         *)
(* A segment is the byte sequence the code hands to send_segment: the ten  *)
(* header bytes of struct.pack("!HHBBHH", ...) followed by the payload.    *)
(***************************************************************************)
EXTENDS Integers, Sequences, FiniteSets, TLC

\* ------------------------------------------------------------------ bounds
\* Initial sequence numbers are drawn from 0..MaxISN (urandom(2) is 0..65535).
MaxISN == 1
\* The configured WINDOW is drawn from 1..MaxWindow.
MaxWindow == 3
\* The application passes at most MaxChunks chunks to send() in one run.
MaxChunks == 2
\* The transport loses, duplicates or corrupts at most MaxFaults segments.
MaxFaults == 1
\* The transport flips one of the bits 0..MaxFlipBit of a byte.
MaxFlipBit == 0
\* The payload holds PayloadWords 16-bit words (1008 bytes = 504 words in the code).
PayloadWords == 2
\* The application calls each of connect(), shutdown() and accept() at most
\* MaxCalls times.
MaxCalls == 1
\* Segments from outside carry sequence and acknowledgement numbers in 0..MaxAck.
MaxAck == 4

\* ------------------------------------------------------- program constants
HEADER_SIZE == 10
PAYLOAD_SIZE == 2 * PayloadWords
\* constants.py: retry rounds of connect() and shutdown().
RETRIES == 2
\* accept(): "retries < 10"; lossy_layer_segment_received: "fin_retries >= 10".
ACCEPT_RETRIES == 10
FIN_RETRIES == 10
\* queue.Queue(maxsize=1000)
SENDBUF_MAXSIZE == 1000
RECVBUF_MAXSIZE == 1000
\* build_segment_header(..., window=0x01, ...)
DEFAULT_WINDOW == 1
\* self.seqnum = None
None == -1

\* ------------------------------------------------------------------- codec
Min(a, b) == IF a < b THEN a ELSE b

Zeros(n) == [i \in 1..n |-> 0]

\* struct.iter_unpack('!H', segment): the big-endian 16-bit words of an
\* even-length byte sequence.
Words[bytes \in Seq(0..255)] ==
    [i \in 1..(Len(bytes) \div 2) |-> bytes[2 * i - 1] * 256 + bytes[2 * i]]

\* in_cksum raises for the empty input (int(0x0000, 16) is a TypeError) and for
\* an odd number of bytes (struct.iter_unpack needs a multiple of 2).
CksumRaises(bytes) == Len(bytes) = 0 \/ Len(bytes) % 2 = 1

\* if checksum > 2 ** 16: checksum -= 2 ** 16 - 1
Wrap[c \in 0..131071] == IF c > 65536 THEN c - 65535 ELSE c

\* The for loop of in_cksum over the words ws, from word i on.
RECURSIVE CksumLoop(_, _, _)
CksumLoop(ws, i, checksum) ==
    IF i > Len(ws) THEN checksum
    ELSE CksumLoop(ws, i + 1, Wrap[checksum + ws[i]])

\* return 2 ** 16 - checksum
Cksum[ws \in Seq(0..65535)] == 65536 - CksumLoop(ws, 1, 0)

in_cksum(bytes) == Cksum[Words[bytes]]

B2I(b) == IF b THEN 1 ELSE 0

\* struct.pack("!HHBBHH", ...) raises struct.error outside these ranges.
Packable(seqnum, acknum, window, length, checksum) ==
    /\ seqnum \in 0..65535
    /\ acknum \in 0..65535
    /\ window \in 0..255
    /\ length \in 0..65535
    /\ checksum \in 0..65535

build_segment_header(seqnum, acknum, syn_set, ack_set, fin_set, window, length, checksum) ==
    << seqnum \div 256, seqnum % 256,
       acknum \div 256, acknum % 256,
       4 * B2I(syn_set) + 2 * B2I(ack_set) + B2I(fin_set),
       window,
       length \div 256, length % 256,
       checksum \div 256, checksum % 256 >>

unpack_segment_header(header) ==
    LET flags == header[5]
    IN  [ seqnum   |-> header[1] * 256 + header[2],
          acknum   |-> header[3] * 256 + header[4],
          syn_set  |-> flags > 3,
          ack_set  |-> (flags % 4) > 1,
          fin_set  |-> (flags % 2) > 0,
          window   |-> header[6],
          datalen  |-> header[7] * 256 + header[8],
          checksum |-> header[9] * 256 + header[10] ]

Header(segment) == unpack_segment_header(SubSeq(segment, 1, HEADER_SIZE))

\* The outcome of building a segment: the bytes, or the exception.
Built(bytes) == [ok |-> TRUE, raw |-> bytes]
Raised == [ok |-> FALSE, raw |-> <<>>]

\* The two-pass build used at every call site: pack the header with checksum 0
\* and window w1, checksum it together with `covered`, pack again with the
\* checksum and window w2, append `payload`.
TwoPass(seqnum, acknum, syn_set, ack_set, fin_set, w1, w2, length, covered, payload) ==
    IF ~Packable(seqnum, acknum, w1, length, 0) THEN Raised
    ELSE LET first == build_segment_header(seqnum, acknum, syn_set, ack_set, fin_set, w1, length, 0) \o covered
         IN  IF CksumRaises(first) THEN Raised
             ELSE LET checksum == in_cksum(first)
                  IN  IF ~Packable(seqnum, acknum, w2, length, checksum) THEN Raised
                      ELSE Built(build_segment_header(seqnum, acknum, syn_set, ack_set, fin_set,
                                                      w2, length, checksum) \o payload)

\* ------------------------------------------------------------------- state
VARIABLES
    WINDOW,               \* constants.py WINDOW, fixed for the whole run
    \* BTCPClientSocket
    c_state, c_seqnum, c_acknum, server_window, last_rec_ack,
    synack_recv, finack_recv, segments_in_transit, sendbuf,
    c_pc, c_round, c_segment,
    \* BTCPServerSocket
    s_state, s_seqnum, s_acknum, window, recvbuf, fin_retries, ack_timeout,
    s_pc, s_retries, syn_ack,
    \* lossy layer: raw segments in transit, one sequence per direction
    c2s, s2c,
    \* the transport's behaviour in this run
    mode, faults_left, drops_left,
    \* history: what send() accepted, what the tick popped, what the server
    \* enqueued, what recv() returned, how often the application called
    accepted, popped, delivered, received, calls,
    \* the last step: [op, raw, tag, st, sent, exc]
    ev

clientVars == << c_state, c_seqnum, c_acknum, server_window, last_rec_ack,
                 synack_recv, finack_recv, segments_in_transit, sendbuf >>
clientApp  == << c_pc, c_round, c_segment >>
serverVars == << s_state, s_seqnum, s_acknum, window, recvbuf, fin_retries, ack_timeout >>
serverApp  == << s_pc, s_retries, syn_ack >>
envVars    == << WINDOW, mode, faults_left, drops_left >>
histVars   == << accepted, popped, delivered, received, calls >>
vars == << clientVars, clientApp, serverVars, serverApp, c2s, s2c, envVars, histVars, ev >>

\* The record of a step: the operation, the segment it was handed and how the
\* transport treated it, the socket's state before, the segments it sent,
\* whether it raised, and what it returned: None, as every method here that
\* ends without a return statement or with a bare one. Of a segment from
\* outside only the tag is kept.
Event(op, raw, tag, st, sent, exc) ==
    [op |-> op, raw |-> IF tag = "forged" THEN <<>> ELSE raw, tag |-> tag, st |-> st,
     sent |-> sent, exc |-> exc, ret |-> None]

\* The run: "pair" is a client and a server joined by the lossy layer, which
\* delivers in order but for faults_left faults (a segment lost, duplicated
\* or delivered with a bit flipped) and for the first drops_left
\* SYNs, which it loses; "solo" is one socket alone, handed arbitrary
\* segments, whose own segments go nowhere ("client", "server": the one
\* process that runs).
\*
\* LossyLayer.send_segment: the segments join the link.
Put(ch, raws) == IF mode = "pair" THEN ch \o raws ELSE ch

\* Timer-driven steps (ticks, timeouts, sleeps running out): the link is
\* faster than the timers, so a timer fires with nothing in transit.
Calm == c2s = <<>> /\ s2c = <<>>

\* ----------------------------------------------------------- client socket
\* BTCPClientSocket.__init__
ClientInit ==
    /\ c_state = "CLOSED"
    /\ c_seqnum = None
    /\ c_acknum = 0
    /\ server_window = WINDOW
    /\ last_rec_ack = 0
    /\ synack_recv = FALSE
    /\ finack_recv = FALSE
    /\ segments_in_transit = <<>>
    /\ sendbuf = <<>>
    /\ c_pc = "idle"
    /\ c_round = 0
    /\ c_segment = <<>>

\* The clean-up loop of lossy_layer_segment_received (lines 122-127): the index
\* of the first entry the ack does not cover, or 0 when the loop runs off the
\* end of the list (IndexError).
RECURSIVE TrimIndex(_, _, _)
TrimIndex(transit, ack, i) ==
    IF i > Len(transit) THEN 0
    ELSE IF ack > transit[i].seqnum THEN TrimIndex(transit, ack, i + 1)
    ELSE i

\* The checksum test of the client: the header alone is checked.
ClientChecksumOk(segment) ==
    LET h == Header(segment)
    IN  in_cksum(build_segment_header(h.seqnum, h.acknum, h.syn_set, h.ack_set, h.fin_set,
                                      h.window, h.datalen, 0)) = h.checksum

\* Two faulty variants of the SYN+ACK test: one compares acknum with the
\* SYN's own seqnum, one does not compare acknum at all.
SynAckOffByOne(h) == h.syn_set /\ h.ack_set /\ c_seqnum = h.acknum
SynAckAnyAcknum(h) == h.syn_set /\ h.ack_set

\* The test of a SYN+ACK in SYN_SENT and of a FIN+ACK in FIN_SENT.
SynAckMatches(h) == h.syn_set /\ h.ack_set /\ c_seqnum + 1 = h.acknum
FinAckMatches(h) == h.ack_set /\ h.fin_set /\ c_seqnum + 1 = h.acknum

\* BTCPClientSocket.lossy_layer_segment_received(segment)
ClientSegmentReceived(segment, tag) ==
    LET h == Header(segment)
        k == TrimIndex(segments_in_transit, h.acknum, 1)
        newack == c_state = "ESTABLISHED" /\ last_rec_ack < h.acknum /\ h.ack_set
        raises == newack /\ k = 0
    IN
    /\ ev' = Event("c_recv", segment, tag, c_state, <<>>,
                   c_state # "CLOSED" /\ ClientChecksumOk(segment) /\ raises)
    /\ IF c_state = "CLOSED" \/ ~ClientChecksumOk(segment)
       THEN UNCHANGED clientVars
       ELSE /\ c_acknum' = IF c_state = "SYN_SENT" /\ SynAckMatches(h) THEN h.seqnum ELSE c_acknum
            /\ server_window' = IF \/ c_state = "SYN_SENT" /\ SynAckMatches(h)
                                   \/ c_state = "ESTABLISHED"
                                THEN h.window ELSE server_window
            /\ synack_recv' = (synack_recv \/ (c_state = "SYN_SENT" /\ SynAckMatches(h)))
            /\ finack_recv' = (finack_recv \/ (c_state = "FIN_SENT" /\ FinAckMatches(h)))
            /\ last_rec_ack' = IF newack THEN h.acknum ELSE last_rec_ack
            /\ segments_in_transit' =
                   IF newack /\ ~raises
                   THEN SubSeq(segments_in_transit, k, Len(segments_in_transit))
                   ELSE segments_in_transit
            /\ UNCHANGED << c_state, c_seqnum, sendbuf >>
    /\ UNCHANGED << clientApp, serverVars, serverApp, c2s, WINDOW, mode, drops_left, histVars >>

\* A faulty variant of the slicing of send(): the data goes in as one chunk.
ChunksWhole(data) == IF data = <<>> THEN <<>> ELSE <<data>>

\* send(): data[sent_bytes : sent_bytes + PAYLOAD_SIZE] for each round of the loop.
Chunks(data) ==
    [i \in 1..((Len(data) + PAYLOAD_SIZE - 1) \div PAYLOAD_SIZE) |->
        SubSeq(data, (i - 1) * PAYLOAD_SIZE + 1, Min(i * PAYLOAD_SIZE, Len(data)))]

\* The data segment the tick builds for `chunk` (lines 172-186).
DataSegment(seqnum, chunk) ==
    LET padded == chunk \o Zeros(PAYLOAD_SIZE - Len(chunk))
    IN  TwoPass(seqnum, c_acknum, FALSE, FALSE, FALSE, WINDOW, WINDOW, Len(chunk), padded, padded)

\* The window test of the tick's while loop (line 168).
WindowOpen(seqnum) == seqnum - last_rec_ack < server_window

\* The while loop of lossy_layer_tick (lines 168-192) from the values its
\* variables have: the outcome [seqnum, sendbuf, transit, sent, popped, exc].
RECURSIVE TickFill(_, _, _, _, _)
TickFill(seqnum, buf, transit, sent, pops) ==
    IF seqnum = None
    THEN [seqnum |-> seqnum, sendbuf |-> buf, transit |-> transit, sent |-> sent,
          popped |-> pops, exc |-> TRUE]
    ELSE IF ~WindowOpen(seqnum) \/ buf = <<>>
    THEN [seqnum |-> seqnum, sendbuf |-> buf, transit |-> transit, sent |-> sent,
          popped |-> pops, exc |-> FALSE]
    ELSE IF ~DataSegment(seqnum, Head(buf)).ok
    THEN [seqnum |-> seqnum, sendbuf |-> Tail(buf), transit |-> transit, sent |-> sent,
          popped |-> Append(pops, Head(buf)), exc |-> TRUE]
    ELSE TickFill(seqnum + 1,
                  Tail(buf),
                  Append(transit, [seqnum |-> seqnum,
                                   segment |-> DataSegment(seqnum, Head(buf)).raw]),
                  Append(sent, DataSegment(seqnum, Head(buf)).raw),
                  Append(pops, Head(buf)))

\* The for loop sending every expired entry twice.
ResentTwice(transit, expired) ==
    LET F[i \in 0..Len(transit)] ==
            IF i = 0 THEN <<>>
            ELSE IF i \in expired
                 THEN F[i - 1] \o << transit[i].segment, transit[i].segment >>
                 ELSE F[i - 1]
    IN  F[Len(transit)]

\* The for loop of lossy_layer_tick (lines 162-166): `expired` holds the
\* positions whose timer has run out when the tick reads time.time(); those
\* entries are sent again and keep their place.
Resent(transit, expired) ==
    LET F[i \in 0..Len(transit)] ==
            IF i = 0 THEN <<>>
            ELSE IF i \in expired THEN Append(F[i - 1], transit[i].segment) ELSE F[i - 1]
    IN  F[Len(transit)]

\* BTCPClientSocket.lossy_layer_tick(); a tick that finds nothing to send and
\* raises nothing leaves the socket as it is.
ClientTick(expired) ==
    \E t \in { TickFill(c_seqnum, sendbuf, segments_in_transit,
                         Resent(segments_in_transit, expired), popped) } :
    /\ expired \subseteq 1..Len(segments_in_transit)
    /\ t.sent # <<>> \/ t.exc
    /\ c_seqnum' = t.seqnum
    /\ sendbuf' = t.sendbuf
    /\ segments_in_transit' = t.transit
    /\ popped' = t.popped
    /\ c2s' = Put(c2s, t.sent)
    /\ ev' = Event("c_tick", <<>>, "", c_state, t.sent, t.exc)
    /\ UNCHANGED << c_state, c_acknum, server_window, last_rec_ack, synack_recv, finack_recv >>
    /\ UNCHANGED << clientApp, serverVars, serverApp, s2c, envVars, accepted, delivered,
                    received, calls >>

\* send(): sent_bytes += len(chunk) over the chunks lo..hi that put_nowait()
\* took, added up by halves.
RECURSIVE SentBytes(_, _, _)
SentBytes(put, lo, hi) ==
    IF lo > hi THEN 0
    ELSE IF lo = hi THEN Len(put[lo])
    ELSE SentBytes(put, lo, (lo + hi) \div 2) + SentBytes(put, (lo + hi) \div 2 + 1, hi)

\* The application passes `data` to send() while the chunks of the run stay
\* within MaxChunks.
Budget(data) == Len(accepted) + Len(Chunks(data)) <= MaxChunks

\* BTCPClientSocket.send(data): put_nowait() takes the chunks until the queue
\* is full; sent_bytes, the bytes of the chunks it took, is returned.
ClientSend(data) ==
    \E chunks \in { Chunks(data) } :
    \E put \in { SubSeq(chunks, 1, Min(Len(chunks), SENDBUF_MAXSIZE - Len(sendbuf))) } :
    /\ c_pc = "idle"
    /\ sendbuf' = sendbuf \o put
    /\ accepted' = accepted \o put
    /\ ev' = [Event("send", data, "", c_state, <<>>, FALSE)
                EXCEPT !.ret = SentBytes(put, 1, Len(put))]
    /\ UNCHANGED << c_state, c_seqnum, c_acknum, server_window, last_rec_ack, synack_recv,
                    finack_recv, segments_in_transit >>
    /\ UNCHANGED << clientApp, serverVars, serverApp, c2s, s2c, envVars, popped, delivered,
                    received, calls >>

\* The zero payload of the control segments (b"\x00" * 1008 in the code).
NoPayload == Zeros(PAYLOAD_SIZE)

\* connect(): the SYN (lines 237-251) and the final ACK (lines 276-292).
SynSegment(seqnum) ==
    TwoPass(seqnum, c_acknum, TRUE, FALSE, FALSE, WINDOW, WINDOW, 0, <<>>, NoPayload)
ConnectAckSegment(seqnum, acknum) ==
    TwoPass(seqnum, acknum, FALSE, TRUE, FALSE, WINDOW, WINDOW, 0, <<>>, NoPayload)
\* shutdown(): the FIN (lines 365-381) and the final ACK (lines 405-419).
FinSegment(seqnum, acknum) ==
    TwoPass(seqnum, acknum, FALSE, FALSE, TRUE, WINDOW, WINDOW, 0, <<>>, NoPayload)
ShutdownAckSegment(seqnum, acknum) ==
    TwoPass(seqnum, acknum, FALSE, TRUE, FALSE, DEFAULT_WINDOW, DEFAULT_WINDOW, 0, <<>>, NoPayload)

Called(op) == calls' = [calls EXCEPT ![op] = @ + 1]

\* connect(), lines 236-255: draw the sequence number, send the SYN.
ConnectStart(isn) ==
    LET b == SynSegment(isn)
    IN
    /\ c_pc = "idle"
    /\ calls.connect < MaxCalls
    /\ Called("connect")
    /\ c_seqnum' = isn
    /\ IF b.ok
       THEN /\ c2s' = Put(c2s, <<b.raw>>)
            /\ c_state' = "SYN_SENT"
            /\ c_pc' = "connect"
            /\ c_round' = 0
            /\ c_segment' = b.raw
       ELSE UNCHANGED << c2s, c_state, c_pc, c_round, c_segment >>
    /\ ev' = Event("connect", <<>>, "", c_state, IF b.ok THEN <<b.raw>> ELSE <<>>, ~b.ok)
    /\ UNCHANGED << c_acknum, server_window, last_rec_ack, synack_recv, finack_recv,
                    segments_in_transit, sendbuf >>
    /\ UNCHANGED << serverVars, serverApp, s2c, envVars, accepted, popped, delivered, received >>

\* A faulty variant of ConnectRetry: the round is counted, the SYN is not
\* sent again.
ConnectRetrySilent ==
    /\ c_pc = "connect"
    /\ c_round < RETRIES - 1
    /\ ~synack_recv
    /\ c_round' = c_round + 1
    /\ ev' = Event("connect_retry", <<>>, "", c_state, <<>>, FALSE)
    /\ UNCHANGED << clientVars, c_pc, c_segment, serverVars, serverApp, c2s, s2c, envVars,
                    histVars >>

\* connect(), lines 258-265: round c_round of the for loop ran out without a
\* SYN+ACK, the SYN goes out again and the next round starts.
ConnectRetry ==
    /\ c_pc = "connect"
    /\ c_round < RETRIES - 1
    /\ ~synack_recv
    /\ c2s' = Put(c2s, <<c_segment>>)
    /\ c_round' = c_round + 1
    /\ ev' = Event("connect_retry", <<>>, "", c_state, <<c_segment>>, FALSE)
    /\ UNCHANGED << clientVars, c_pc, c_segment, serverVars, serverApp, s2c, envVars, histVars >>

\* connect(), lines 258-268: the last round ran out without a SYN+ACK; the
\* SYN goes out once more, the loop ends and the socket is closed.
ConnectFail ==
    /\ c_pc = "connect"
    /\ c_round = RETRIES - 1
    /\ ~synack_recv
    /\ c2s' = Put(c2s, <<c_segment>>)
    /\ c_state' = "CLOSED"
    /\ c_pc' = "idle"
    /\ ev' = Event("connect_fail", <<>>, "", c_state, <<c_segment>>, FALSE)
    /\ UNCHANGED << c_seqnum, c_acknum, server_window, last_rec_ack, synack_recv, finack_recv,
                    segments_in_transit, sendbuf >>
    /\ UNCHANGED << c_round, c_segment, serverVars, serverApp, s2c, envVars, histVars >>

\* connect(), lines 269-295: the SYN+ACK was seen.
ConnectDone ==
    LET b == ConnectAckSegment(c_seqnum + 1, c_acknum + 1)
    IN
    /\ c_pc = "connect"
    /\ synack_recv
    /\ c_acknum' = c_acknum + 1
    /\ c_seqnum' = c_seqnum + 1
    /\ c_pc' = "idle"
    /\ IF b.ok
       THEN /\ c2s' = Put(c2s, <<b.raw>>)
            /\ c_state' = "ESTABLISHED"
       ELSE UNCHANGED << c2s, c_state >>
    /\ ev' = Event("connect_done", <<>>, "", c_state, IF b.ok THEN <<b.raw>> ELSE <<>>, ~b.ok)
    /\ UNCHANGED << server_window, last_rec_ack, synack_recv, finack_recv,
                    segments_in_transit, sendbuf >>
    /\ UNCHANGED << c_round, c_segment, serverVars, serverApp, s2c, envVars, histVars >>

\* shutdown(), lines 358-383: advance the counters, send the FIN.
ShutdownStart ==
    LET b == FinSegment(c_seqnum + 1, c_acknum + 1)
        ok == c_seqnum # None /\ b.ok
    IN
    /\ c_pc = "idle"
    /\ calls.shutdown < MaxCalls
    /\ Called("shutdown")
    /\ c_acknum' = c_acknum + 1
    /\ c_seqnum' = IF c_seqnum = None THEN None ELSE c_seqnum + 1
    /\ IF ok
       THEN /\ c2s' = Put(c2s, <<b.raw>>)
            /\ c_state' = "FIN_SENT"
            /\ c_pc' = "shutdown"
            /\ c_round' = 0
            /\ c_segment' = b.raw
       ELSE UNCHANGED << c2s, c_state, c_pc, c_round, c_segment >>
    /\ ev' = Event("shutdown", <<>>, "", c_state, IF ok THEN <<b.raw>> ELSE <<>>, ~ok)
    /\ UNCHANGED << server_window, last_rec_ack, synack_recv, finack_recv,
                    segments_in_transit, sendbuf >>
    /\ UNCHANGED << serverVars, serverApp, s2c, envVars, accepted, popped, delivered, received >>

\* shutdown(), lines 386-393: round c_round of the for loop ran out without a
\* FIN+ACK, the FIN goes out again and the next round starts.
ShutdownRetry ==
    /\ c_pc = "shutdown"
    /\ c_round < RETRIES - 1
    /\ ~finack_recv
    /\ c2s' = Put(c2s, <<c_segment>>)
    /\ c_round' = c_round + 1
    /\ ev' = Event("shutdown_retry", <<>>, "", c_state, <<c_segment>>, FALSE)
    /\ UNCHANGED << clientVars, c_pc, c_segment, serverVars, serverApp, s2c, envVars, histVars >>

\* shutdown(), lines 386-397: the last round ran out without a FIN+ACK; the
\* FIN goes out once more, the loop ends and the socket is closed.
ShutdownFail ==
    /\ c_pc = "shutdown"
    /\ c_round = RETRIES - 1
    /\ ~finack_recv
    /\ c2s' = Put(c2s, <<c_segment>>)
    /\ c_state' = "CLOSED"
    /\ c_pc' = "idle"
    /\ ev' = Event("shutdown_fail", <<>>, "", c_state, <<c_segment>>, FALSE)
    /\ UNCHANGED << c_seqnum, c_acknum, server_window, last_rec_ack, synack_recv, finack_recv,
                    segments_in_transit, sendbuf >>
    /\ UNCHANGED << c_round, c_segment, serverVars, serverApp, s2c, envVars, histVars >>

\* shutdown(), lines 398-421: the FIN+ACK was seen.
ShutdownDone ==
    LET b == ShutdownAckSegment(c_seqnum + 1, c_acknum + 1)
    IN
    /\ c_pc = "shutdown"
    /\ finack_recv
    /\ c_acknum' = c_acknum + 1
    /\ c_seqnum' = c_seqnum + 1
    /\ c_pc' = "idle"
    /\ IF b.ok
       THEN /\ c2s' = Put(c2s, <<b.raw>>)
            /\ c_state' = "CLOSED"
       ELSE UNCHANGED << c2s, c_state >>
    /\ ev' = Event("shutdown_done", <<>>, "", c_state, IF b.ok THEN <<b.raw>> ELSE <<>>, ~b.ok)
    /\ UNCHANGED << server_window, last_rec_ack, synack_recv, finack_recv,
                    segments_in_transit, sendbuf >>
    /\ UNCHANGED << c_round, c_segment, serverVars, serverApp, s2c, envVars, histVars >>

\* ----------------------------------------------------------- server socket
\* BTCPServerSocket.__init__
ServerInit ==
    /\ s_state = "CLOSED"
    /\ s_seqnum = None
    /\ s_acknum = 0
    /\ window = WINDOW
    /\ recvbuf = <<>>
    /\ fin_retries = None
    /\ ack_timeout = "None"
    /\ s_pc = "idle"
    /\ s_retries = 0
    /\ syn_ack = <<>>

\* chunk = segment[HEADER_SIZE:HEADER_SIZE + datalen] (line 104)
Chunk(segment) ==
    SubSeq(segment, HEADER_SIZE + 1, Min(HEADER_SIZE + Header(segment).datalen, Len(segment)))

\* The bytes the server checksums (line 107): the header rebuilt with checksum
\* 0, and the chunk.
ServerCovered(segment) ==
    LET h == Header(segment)
    IN  build_segment_header(h.seqnum, h.acknum, h.syn_set, h.ack_set, h.fin_set,
                             h.window, h.datalen, 0) \o Chunk(segment)

\* A faulty variant of the server's checksum test: every segment passes.
ServerChecksumSkipped(segment) == TRUE

ServerChecksumOk(segment) == in_cksum(ServerCovered(segment)) = Header(segment).checksum

\* The flag classes of lines 114-118.
SYNACK(h) == h.syn_set /\ h.ack_set
SYN(h)    == h.syn_set /\ ~SYNACK(h)
ACK(h)    == h.ack_set /\ ~SYNACK(h)
FIN(h)    == h.fin_set /\ ~SYN(h) /\ ~ACK(h)
NOFLAG(h) == ~(SYN(h) \/ ACK(h) \/ FIN(h) \/ SYNACK(h))

\* generate_ack(): the checksum is taken over a header with the default
\* window, the header sent carries self.window.
generate_ack ==
    TwoPass(s_seqnum, s_acknum, FALSE, TRUE, FALSE, DEFAULT_WINDOW, window, 0, <<>>, NoPayload)

\* The FIN+ACK of lines 140-144 and 154-158.
fin_ack ==
    TwoPass(s_seqnum, s_acknum, FALSE, TRUE, TRUE, DEFAULT_WINDOW, DEFAULT_WINDOW, 0, <<>>, NoPayload)

\* The in-order test of line 164.
InOrder(seqnum) == seqnum = s_acknum + 1

\* What lossy_layer_segment_received does with a segment that passed the
\* checksum: [state, acknum, fin_retries, ack_timeout, put, sent, exc], `put`
\* being the chunks handed to _recvbuf.put_nowait.
ServerHandle(segment) ==
    LET h == Header(segment)
        same == [ state |-> s_state, acknum |-> s_acknum, fin_retries |-> fin_retries,
                  ack_timeout |-> ack_timeout, put |-> <<>>, sent |-> <<>>, exc |-> FALSE ]
    IN
    IF s_state # "ESTABLISHED" THEN
        IF s_state = "ACCEPTING" /\ SYN(h)
            THEN [same EXCEPT !.acknum = h.seqnum + 1, !.state = "SYN_RCVD"]
        ELSE IF s_state = "SYN_RCVD" /\ ACK(h)
            THEN [same EXCEPT !.state = "ESTABLISHED"]
        ELSE IF s_state = "CLOSING" /\ ACK(h)
            THEN [same EXCEPT !.state = "CLOSED"]
        ELSE IF s_state = "CLOSING" /\ FIN(h)
            THEN IF fin_retries >= FIN_RETRIES THEN [same EXCEPT !.state = "CLOSED"]
                 ELSE IF ~fin_ack.ok THEN [same EXCEPT !.exc = TRUE]
                 ELSE [same EXCEPT !.sent = <<fin_ack.raw>>, !.fin_retries = fin_retries + 1]
        ELSE same
    ELSE IF FIN(h)
        THEN IF ~fin_ack.ok
             THEN [same EXCEPT !.state = "CLOSING", !.fin_retries = 0, !.exc = TRUE]
             ELSE [same EXCEPT !.state = "CLOSING", !.fin_retries = 0, !.sent = <<fin_ack.raw>>]
    ELSE IF NOFLAG(h)
        THEN IF ~generate_ack.ok
             THEN [same EXCEPT !.ack_timeout = "None", !.exc = TRUE]
             ELSE IF InOrder(h.seqnum)
             THEN [same EXCEPT !.ack_timeout = "None", !.sent = <<generate_ack.raw>>,
                               !.acknum = s_acknum + 1,
                               !.put = <<Chunk(segment)>>]
             ELSE [same EXCEPT !.ack_timeout = "None", !.sent = <<generate_ack.raw>>]
    ELSE same

\* BTCPServerSocket.lossy_layer_segment_received(segment)
ServerSegmentReceived(segment, tag) ==
    LET raises == s_state # "CLOSED" /\ CksumRaises(ServerCovered(segment))
        dropped == s_state = "CLOSED" \/ raises \/ ~ServerChecksumOk(segment)
        r == ServerHandle(segment)
        room == Len(recvbuf) < RECVBUF_MAXSIZE
    IN
    /\ IF dropped
       THEN /\ ev' = Event("s_recv", segment, tag, s_state, <<>>, raises)
            /\ UNCHANGED << serverVars, s2c, delivered >>
       ELSE /\ ev' = Event("s_recv", segment, tag, s_state, r.sent, r.exc)
            /\ s_state' = r.state
            /\ s_acknum' = r.acknum
            /\ fin_retries' = r.fin_retries
            /\ ack_timeout' = r.ack_timeout
            /\ recvbuf' = IF room THEN recvbuf \o r.put ELSE recvbuf
            /\ delivered' = IF room THEN delivered \o r.put ELSE delivered
            /\ s2c' = Put(s2c, r.sent)
            /\ UNCHANGED << s_seqnum, window >>
    /\ UNCHANGED << clientVars, clientApp, serverApp, WINDOW, mode, drops_left,
                    accepted, popped, received, calls >>

\* BTCPServerSocket.lossy_layer_tick(); `passed` says whether the deadline the
\* tick looks at (fin_timeout in CLOSING, ack_timeout in ESTABLISHED) has passed.
ServerTick(passed) ==
    LET keepalive == s_state = "ESTABLISHED" /\ ack_timeout # "None" /\ passed
        sent == IF keepalive /\ generate_ack.ok THEN <<generate_ack.raw>> ELSE <<>>
    IN
    \* a tick that finds nothing to do leaves the socket as it is
    /\ \/ s_state = "CLOSING" /\ passed
       \/ s_state = "ESTABLISHED" /\ (ack_timeout = "None" \/ passed)
    /\ s_state' = IF s_state = "CLOSING" /\ passed THEN "CLOSED" ELSE s_state
    /\ ack_timeout' = IF s_state = "ESTABLISHED" /\ ack_timeout = "None" THEN "set" ELSE ack_timeout
    /\ s2c' = Put(s2c, sent)
    /\ ev' = Event("s_tick", <<>>, "", s_state, sent, keepalive /\ ~generate_ack.ok)
    /\ UNCHANGED << s_seqnum, s_acknum, window, recvbuf, fin_retries >>
    /\ UNCHANGED << clientVars, clientApp, serverApp, c2s, envVars, histVars >>

\* accept(): the SYN+ACK of lines 284-288.
SynAckSegment(seqnum) ==
    TwoPass(seqnum, s_acknum, TRUE, TRUE, FALSE, window, window, 0, <<>>, NoPayload)

\* accept(), lines 270-272: (re-)enter ACCEPTING and start the 20 s deadline.
AcceptStart ==
    /\ s_pc = "idle"
    /\ calls.accept < MaxCalls
    /\ Called("accept")
    /\ s_state' = "ACCEPTING"
    /\ s_pc' = "wait_syn"
    /\ ev' = Event("accept", <<>>, "", s_state, <<>>, FALSE)
    /\ UNCHANGED << s_seqnum, s_acknum, window, recvbuf, fin_retries, ack_timeout >>
    /\ UNCHANGED << s_retries, syn_ack, clientVars, clientApp, c2s, s2c, envVars,
                    accepted, popped, delivered, received >>

\* accept(), lines 276-279: the deadline passes with the state not SYN_RCVD.
AcceptTimeout ==
    /\ s_pc = "wait_syn"
    /\ s_state # "SYN_RCVD"
    /\ s_state' = "CLOSED"
    /\ s_pc' = "idle"
    /\ ev' = Event("accept_timeout", <<>>, "", s_state, <<>>, FALSE)
    /\ UNCHANGED << s_seqnum, s_acknum, window, recvbuf, fin_retries, ack_timeout >>
    /\ UNCHANGED << s_retries, syn_ack, clientVars, clientApp, c2s, s2c, envVars, histVars >>

\* accept(), lines 281-294: SYN_RCVD was seen; draw the sequence number, build
\* the SYN+ACK, send it for the first time and go to sleep.
AcceptSynRcvd(isn) ==
    LET b == SynAckSegment(isn)
    IN
    /\ s_pc = "wait_syn"
    /\ s_state = "SYN_RCVD"
    /\ s_seqnum' = isn
    /\ IF b.ok
       THEN /\ syn_ack' = b.raw
            /\ s_retries' = 1
            /\ s_pc' = "sleep"
            /\ s2c' = Put(s2c, <<b.raw>>)
       ELSE /\ s_pc' = "idle"
            /\ UNCHANGED << syn_ack, s_retries, s2c >>
    /\ ev' = Event("accept_syn_rcvd", <<>>, "", s_state, IF b.ok THEN <<b.raw>> ELSE <<>>, ~b.ok)
    /\ UNCHANGED << s_state, s_acknum, window, recvbuf, fin_retries, ack_timeout >>
    /\ UNCHANGED << clientVars, clientApp, c2s, envVars, histVars >>

\* accept(), lines 290-300: time.sleep(10) returns and the loop condition is
\* looked at: return when ESTABLISHED, send the SYN+ACK again and sleep while
\* retries are left, else start over with ACCEPTING (lines 270-272). The
\* locals retries and syn_ack end with the round.
AcceptWake ==
    LET again == s_state # "ESTABLISHED" /\ s_retries < ACCEPT_RETRIES
    IN
    /\ s_pc = "sleep"
    /\ s_pc' = IF s_state = "ESTABLISHED" THEN "idle" ELSE IF again THEN "sleep" ELSE "wait_syn"
    /\ s_state' = IF s_state = "ESTABLISHED" \/ again THEN s_state ELSE "ACCEPTING"
    /\ s_retries' = IF again THEN s_retries + 1 ELSE 0
    /\ syn_ack' = IF again THEN syn_ack ELSE <<>>
    /\ s2c' = IF again THEN Put(s2c, <<syn_ack>>) ELSE s2c
    /\ ev' = Event("accept_wake", <<>>, "", s_state, IF again THEN <<syn_ack>> ELSE <<>>, FALSE)
    /\ UNCHANGED << s_seqnum, s_acknum, window, recvbuf, fin_retries, ack_timeout >>
    /\ UNCHANGED << clientVars, clientApp, c2s, envVars, histVars >>

\* accept(), lines 276-277, when the application thread can lose the
\* processor between its reads and its write: the loop has read a state other
\* than SYN_RCVD and found the deadline passed; the assignment of line 278 is
\* still to come.
AcceptExpire ==
    /\ s_pc = "wait_syn"
    /\ s_state # "SYN_RCVD"
    /\ s_pc' = "expired"
    /\ ev' = Event("accept_expire", <<>>, "", s_state, <<>>, FALSE)
    /\ UNCHANGED serverVars
    /\ UNCHANGED << s_retries, syn_ack, clientVars, clientApp, c2s, s2c, envVars, histVars >>

\* accept(), lines 278-279: self.state = CLOSED, return.
AcceptClose ==
    /\ s_pc = "expired"
    /\ s_state' = "CLOSED"
    /\ s_pc' = "idle"
    /\ ev' = Event("accept_timeout", <<>>, "", s_state, <<>>, FALSE)
    /\ UNCHANGED << s_seqnum, s_acknum, window, recvbuf, fin_retries, ack_timeout >>
    /\ UNCHANGED << s_retries, syn_ack, clientVars, clientApp, c2s, s2c, envVars, histVars >>

\* accept(), lines 290 and 296: the retries are used up and both reads of the
\* state found it other than ESTABLISHED; `continue` (line 300) is taken and
\* the assignment of line 272 is still to come.
AcceptGiveUp ==
    /\ s_pc = "sleep"
    /\ s_state # "ESTABLISHED"
    /\ s_retries >= ACCEPT_RETRIES
    /\ s_pc' = "restart"
    /\ s_retries' = 0
    /\ syn_ack' = <<>>
    /\ ev' = Event("accept_give_up", <<>>, "", s_state, <<>>, FALSE)
    /\ UNCHANGED serverVars
    /\ UNCHANGED << clientVars, clientApp, c2s, s2c, envVars, histVars >>

\* accept(), lines 271-272 after `continue`: self.state = ACCEPTING.
AcceptRestart ==
    /\ s_pc = "restart"
    /\ s_state' = "ACCEPTING"
    /\ s_pc' = "wait_syn"
    /\ ev' = Event("accept_restart", <<>>, "", s_state, <<>>, FALSE)
    /\ UNCHANGED << s_seqnum, s_acknum, window, recvbuf, fin_retries, ack_timeout >>
    /\ UNCHANGED << s_retries, syn_ack, clientVars, clientApp, c2s, s2c, envVars, histVars >>

RECURSIVE Concat(_)
Concat(chunks) == IF chunks = <<>> THEN <<>> ELSE Head(chunks) \o Concat(Tail(chunks))

\* recv() with data waiting (lines 346-359): the first get(), then get_nowait()
\* until queue.Empty; the window is set after each get_nowait() that succeeds.
ServerRecv ==
    /\ s_pc = "idle"
    /\ recvbuf # <<>>
    /\ received' = received \o Concat(recvbuf)
    /\ window' = IF Len(recvbuf) >= 2 THEN RECVBUF_MAXSIZE - 0 ELSE window
    /\ recvbuf' = <<>>
    /\ ev' = Event("recv", Concat(recvbuf), "", s_state, <<>>, FALSE)
    /\ UNCHANGED << s_state, s_seqnum, s_acknum, fin_retries, ack_timeout >>
    /\ UNCHANGED << serverApp, clientVars, clientApp, c2s, s2c, envVars,
                    accepted, popped, delivered, calls >>

\* --------------------------------------------------------------- transport
Remove(ch, i) == SubSeq(ch, 1, i - 1) \o SubSeq(ch, i + 1, Len(ch))

RECURSIVE Pow2(_)
Pow2(n) == IF n = 0 THEN 1 ELSE 2 * Pow2(n - 1)

FlipBit(byte, bit) ==
    IF (byte \div Pow2(bit)) % 2 = 1 THEN byte - Pow2(bit) ELSE byte + Pow2(bit)

\* The byte positions of a segment at which the transport flips a bit: the low
\* byte of the checksum, the flags, and every byte of the payload.
FlipPositions == {5, 10} \cup ((HEADER_SIZE + 1)..(HEADER_SIZE + PAYLOAD_SIZE))

\* What can arrive for a segment sent as `raw`: the segment itself, or (a
\* fault) the segment with one bit flipped, in the header ("hflip") or in the
\* payload ("pflip").
Arrivals(raw) ==
    { [raw |-> raw, tag |-> "ok"] }
    \cup (IF faults_left > 0
          THEN { [raw |-> [raw EXCEPT ![pos] = FlipBit(@, bit)],
                  tag |-> IF pos > HEADER_SIZE THEN "pflip" ELSE "hflip"] :
                    pos \in FlipPositions, bit \in 0..MaxFlipBit }
          ELSE {})

\* What can arrive next on a link.
ArrivalsOf(ch) == IF ch = <<>> THEN {} ELSE Arrivals(Head(ch))

\* The faults a delivery makes use of: duplicated, corrupted.
Faults(keep, a) == B2I(keep) + B2I(a.tag # "ok")

IsSyn(raw) == SYN(Header(raw))

\* The lossy layer hands the server the oldest segment in transit (and keeps
\* a copy in transit when it duplicates it).
ServerReceive(keep, a) ==
    /\ c2s # <<>>
    /\ a \in Arrivals(Head(c2s))
    /\ Faults(keep, a) <= faults_left
    /\ ~(drops_left > 0 /\ IsSyn(Head(c2s)))
    /\ faults_left' = faults_left - Faults(keep, a)
    /\ c2s' = IF keep THEN c2s ELSE Tail(c2s)
    /\ ServerSegmentReceived(a.raw, a.tag)

\* The lossy layer hands the client the oldest segment in transit.
ClientReceive(keep, a) ==
    /\ s2c # <<>>
    /\ a \in Arrivals(Head(s2c))
    /\ Faults(keep, a) <= faults_left
    /\ faults_left' = faults_left - Faults(keep, a)
    /\ s2c' = IF keep THEN s2c ELSE Tail(s2c)
    /\ ClientSegmentReceived(a.raw, a.tag)

\* A segment is lost on its way to the server / to the client.
LoseC2S(i) ==
    /\ faults_left > 0
    /\ i \in 1..Len(c2s)
    /\ c2s' = Remove(c2s, i)
    /\ faults_left' = faults_left - 1
    /\ ev' = Event("lose_c2s", c2s[i], "", "", <<>>, FALSE)
    /\ UNCHANGED << clientVars, clientApp, serverVars, serverApp, s2c, WINDOW, mode,
                    drops_left, histVars >>

LoseS2C(i) ==
    /\ faults_left > 0
    /\ i \in 1..Len(s2c)
    /\ s2c' = Remove(s2c, i)
    /\ faults_left' = faults_left - 1
    /\ ev' = Event("lose_s2c", s2c[i], "", "", <<>>, FALSE)
    /\ UNCHANGED << clientVars, clientApp, serverVars, serverApp, c2s, WINDOW, mode,
                    drops_left, histVars >>

\* One of the first SYNs is lost.
DropSyn ==
    /\ drops_left > 0
    /\ c2s # <<>>
    /\ IsSyn(c2s[1])
    /\ c2s' = Tail(c2s)
    /\ drops_left' = drops_left - 1
    /\ ev' = Event("drop_syn", c2s[1], "", "", <<>>, FALSE)
    /\ UNCHANGED << clientVars, clientApp, serverVars, serverApp, s2c, WINDOW, mode,
                    faults_left, histVars >>

\* ----------------------------------------------------------- specifications
InitWith(m, f, d) ==
    /\ WINDOW \in 1..MaxWindow
    /\ ClientInit
    /\ ServerInit
    /\ c2s = <<>>
    /\ s2c = <<>>
    /\ mode = m
    /\ faults_left = f
    /\ drops_left \in d
    /\ accepted = <<>>
    /\ popped = <<>>
    /\ delivered = <<>>
    /\ received = <<>>
    /\ calls = [connect |-> 0, shutdown |-> 0, accept |-> 0]
    /\ ev = Event("init", <<>>, "", "", <<>>, FALSE)

\* connect() and accept() draw their sequence numbers from ISN.
ISN == 0..MaxISN

\* The data the application sends: a short chunk of even length, one of odd
\* length, or one word more than a payload (two chunks).
PairData == { <<1, 2>>, <<9>>, [i \in 1..(PAYLOAD_SIZE + 2) |-> 2 + i] }

\* The server has caught up with an established connection: accept() is back
\* from its sleep and the first tick has set the keepalive timer. The client
\* application goes on to send() or shutdown() only then.
Woken == ~(s_state = "ESTABLISHED" /\ (s_pc = "sleep" \/ ack_timeout = "None"))

\* accept()'s busy loop (lines 276-279) sees SYN_RCVD before a round of
\* connect() runs out.
Patient == ~(s_pc = "wait_syn" /\ s_state = "SYN_RCVD")

\* connect() polls synack_recv every TIMER_TICK (lines 260-261) and sees it
\* before accept()'s time.sleep(10) ends.
Prompt == ~(c_pc = "connect" /\ synack_recv)

\* A client and a server over a transport that loses, duplicates and
\* corrupts up to MaxFaults segments and delivers in order. The link is faster than the
\* applications and the timers: they act with nothing in transit. No FIN+ACK
\* of this server passes the client's test in FIN_SENT, so shutdown() never
\* takes its success path here (ShutdownDone runs in SpecClient).
Init == InitWith("pair", MaxFaults, {0})
Next ==
    \/ \E isn \in ISN : Calm /\ c_state = "CLOSED" /\ ConnectStart(isn)
    \/ Calm /\ Patient /\ ConnectRetry
    \/ Calm /\ Patient /\ ConnectFail
    \/ Calm /\ ConnectDone
    \/ \E data \in PairData :
          Calm /\ c_state = "ESTABLISHED" /\ Woken /\ Budget(data) /\ ClientSend(data)
    \/ Calm /\ c_state = "ESTABLISHED" /\ Woken /\ ShutdownStart
    \/ Calm /\ ShutdownRetry
    \/ Calm /\ ShutdownFail
    \/ \E expired \in SUBSET (1..Len(segments_in_transit)) : Calm /\ ClientTick(expired)
    \/ Calm /\ s_state = "CLOSED" /\ AcceptStart
    \/ Calm /\ AcceptTimeout
    \/ \E isn \in ISN : Calm /\ AcceptSynRcvd(isn)
    \/ Calm /\ Prompt /\ AcceptWake
    \/ Calm /\ ServerRecv
    \/ \E passed \in BOOLEAN : Calm /\ ServerTick(passed)
    \/ \E keep \in BOOLEAN, a \in ArrivalsOf(c2s) : ServerReceive(keep, a)
    \/ \E keep \in BOOLEAN, a \in ArrivalsOf(s2c) : ClientReceive(keep, a)
    \/ \E i \in 1..Len(c2s) : LoseC2S(i)
    \/ \E i \in 1..Len(s2c) : LoseS2C(i)
Spec == Init /\ [][Next]_vars

\* A client and a server over a transport that loses the first drops_left
\* SYNs (up to RETRIES of them) and nothing else. connect() is called while accept() waits, accept()'s
\* deadline outlasts connect(), and shutdown() is not called. Every thread
\* keeps running: the two applications inside their blocking calls, the
\* lossy layer's delivery, the ticks.
LiveClientApp ==
    \/ \E isn \in ISN : Calm /\ c_state = "CLOSED" /\ s_state = "ACCEPTING" /\ ConnectStart(isn)
    \/ Calm /\ Patient /\ ConnectRetry
    \/ Calm /\ Patient /\ ConnectFail
    \/ Calm /\ ConnectDone
LiveClientSend ==
    \E data \in PairData :
        Calm /\ c_state = "ESTABLISHED" /\ Woken /\ Budget(data) /\ ClientSend(data)
LiveClientTick ==
    \E expired \in SUBSET (1..Len(segments_in_transit)) : Calm /\ ClientTick(expired)
LiveServerApp ==
    \/ Calm /\ s_state = "CLOSED" /\ AcceptStart
    \/ \E isn \in ISN : Calm /\ AcceptSynRcvd(isn)
    \/ Calm /\ Prompt /\ AcceptWake
    \/ Calm /\ ServerRecv
LiveServerTick ==
    \E passed \in BOOLEAN : Calm /\ ServerTick(passed)
LiveDeliver ==
    \/ \E keep \in BOOLEAN, a \in ArrivalsOf(c2s) : ServerReceive(keep, a)
    \/ \E keep \in BOOLEAN, a \in ArrivalsOf(s2c) : ClientReceive(keep, a)
    \/ DropSyn
InitLive == InitWith("pair", 0, 0..RETRIES)
NextLive ==
    \/ LiveClientApp
    \/ LiveClientSend
    \/ LiveClientTick
    \/ LiveServerApp
    \/ LiveServerTick
    \/ LiveDeliver
SpecLive ==
    /\ InitLive
    /\ [][NextLive]_vars
    /\ WF_vars(LiveClientApp)
    /\ WF_vars(LiveClientTick)
    /\ WF_vars(LiveServerApp)
    /\ WF_vars(LiveServerTick)
    /\ WF_vars(LiveDeliver)

\* The flag combinations a segment can carry.
Flags == [syn : BOOLEAN, ack : BOOLEAN, fin : BOOLEAN]
NoFlags == [syn |-> FALSE, ack |-> FALSE, fin |-> FALSE]

\* A segment from outside: header fields of the sender's choice, a checksum
\* over header and chunk, the chunk padded to the payload size.
Forge(seqnum, acknum, f, w, chunk) ==
    LET padded == chunk \o Zeros(PAYLOAD_SIZE - Len(chunk))
    IN  TwoPass(seqnum, acknum, f.syn, f.ack, f.fin, w, w, Len(chunk), chunk, padded).raw

\* What a client alone is handed: every flag combination with every
\* acknum in 0..MaxAck, advertising a window of MaxWindow, and the pure ACKs
\* advertising a window of 1.
ClientInbound ==
    { Forge(0, acknum, f, MaxWindow, <<>>) : acknum \in 0..MaxAck, f \in Flags }
    \cup { Forge(0, acknum, [NoFlags EXCEPT !.ack = TRUE], 1, <<>>) : acknum \in 0..MaxAck }

\* What a server alone is handed: every flag combination (data segments
\* carry the chunk <<1, 2>>) with every seqnum in 0..MaxAck.
ServerInbound ==
    { Forge(seqnum, 0, f, 1, IF f = NoFlags THEN <<1, 2>> ELSE <<>>) :
        seqnum \in 0..MaxAck, f \in Flags }

\* The lossy layer hands a socket that runs alone a segment from outside.
ClientForged(segment) ==
    /\ ClientSegmentReceived(segment, "forged")
    /\ UNCHANGED << s2c, faults_left >>
ServerForged(segment) ==
    /\ ServerSegmentReceived(segment, "forged")
    /\ UNCHANGED << c2s, faults_left >>

\* One socket alone, built with the largest WINDOW.
InitSolo == InitWith("solo", 0, {0}) /\ WINDOW = MaxWindow

\* A client alone: the application calls connect(), send() and shutdown() in
\* any state, the network thread ticks and hands over segments from outside.
NextClient ==
    \/ \E isn \in ISN : ConnectStart(isn)
    \/ ConnectRetry
    \/ ConnectFail
    \/ ConnectDone
    \/ \E data \in PairData : Budget(data) /\ ClientSend(data)
    \/ ShutdownStart
    \/ ShutdownRetry
    \/ ShutdownFail
    \/ ShutdownDone
    \/ \E expired \in SUBSET (1..Len(segments_in_transit)) : ClientTick(expired)
    \/ \E segment \in ClientInbound : ClientForged(segment)
SpecClient == InitSolo /\ [][NextClient]_vars

\* accept() keeps up with the network thread: its busy loop (lines 276-279)
\* has seen SYN_RCVD, and it is not asleep (time.sleep(10), line 294) on a
\* handshake that is over.
Awake ==
    /\ ~(s_pc = "wait_syn" /\ s_state = "SYN_RCVD")
    /\ ~(s_pc = "sleep" /\ s_state # "SYN_RCVD")

\* A server alone: the application calls accept() and recv(), the network
\* thread ticks and hands over segments from outside; accept() has caught up
\* before the next segment arrives.
NextServer ==
    \/ AcceptStart
    \/ AcceptTimeout
    \/ \E isn \in ISN : AcceptSynRcvd(isn)
    \/ AcceptWake
    \/ ServerRecv
    \/ \E passed \in BOOLEAN : ServerTick(passed)
    \/ \E segment \in ServerInbound : Awake /\ ServerForged(segment)
SpecServer == InitSolo /\ [][NextServer]_vars

\* The segments a server alone is handed while accept() runs: one of each flag
\* combination that can move its state, and one data segment.
AcceptInbound ==
    { Forge(0, 0, [NoFlags EXCEPT !.syn = TRUE], 1, <<>>),
      Forge(0, 0, [NoFlags EXCEPT !.ack = TRUE], 1, <<>>),
      Forge(0, 0, [NoFlags EXCEPT !.fin = TRUE], 1, <<>>),
      Forge(1, 0, NoFlags, 1, <<1, 2>>) }

\* A server alone whose accept() runs beside the network thread: a segment
\* can be handled between any two statements of accept(), so the timeout path
\* and the path that starts over each take two steps, the reads and the write.
NextAccept ==
    \/ AcceptStart
    \/ AcceptExpire
    \/ AcceptClose
    \/ \E isn \in ISN : AcceptSynRcvd(isn)
    \/ (s_state = "ESTABLISHED" \/ s_retries < ACCEPT_RETRIES) /\ AcceptWake
    \/ AcceptGiveUp
    \/ AcceptRestart
    \/ \E segment \in AcceptInbound : ServerForged(segment)
SpecAccept == InitSolo /\ [][NextAccept]_vars

\* The data of a client that fills its send buffer: all of one byte value,
\* short (up to MaxChunks chunks) or long (a few chunks less than the send
\* buffer holds, up to one chunk more).
Bytes(n) == [i \in 1..n |-> 7]
ShortData == { Bytes(n) : n \in 0..(MaxChunks * PAYLOAD_SIZE) }
LongData ==
    { Bytes(n * PAYLOAD_SIZE) : n \in (SENDBUF_MAXSIZE - MaxChunks)..(SENDBUF_MAXSIZE + 1) }

\* A client alone whose application calls send() and nothing else, and no
\* tick runs: long data into the empty buffer, short data while the chunks of
\* the run stay within MaxChunks and once the buffer is within MaxChunks
\* chunks of full.
NextSend ==
    \/ \E data \in LongData : sendbuf = <<>> /\ ClientSend(data)
    \/ \E data \in ShortData :
          /\ Len(sendbuf) >= SENDBUF_MAXSIZE - MaxChunks \/ Budget(data)
          /\ ClientSend(data)
SpecSend == InitSolo /\ [][NextSend]_vars

\* The steps inside the blocking calls: the loops of connect(), shutdown() and
\* accept() once the call has started.
InConnect == ConnectRetry \/ ConnectFail \/ ConnectDone
InShutdown == ShutdownRetry \/ ShutdownFail \/ ShutdownDone
InAccept == AcceptTimeout \/ (\E isn \in ISN : AcceptSynRcvd(isn)) \/ AcceptWake

\* One process alone, the client's or the server's, whose application makes
\* the blocking calls while the lossy layer hands it segments from outside.
\* The thread inside a blocking call keeps running; nothing is assumed of the
\* segments.
InitCalls ==
    /\ \E m \in {"client", "server"} : InitWith(m, 0, {0})
    /\ WINDOW = MaxWindow
NextCalls ==
    \/ \E isn \in ISN : mode = "client" /\ ConnectStart(isn)
    \/ InConnect
    \/ mode = "client" /\ ShutdownStart
    \/ InShutdown
    \/ \E segment \in ClientInbound : mode = "client" /\ ClientForged(segment)
    \/ mode = "server" /\ AcceptStart
    \/ InAccept
    \/ \E segment \in ServerInbound : mode = "server" /\ Awake /\ ServerForged(segment)
SpecCalls ==
    /\ InitCalls
    /\ [][NextCalls]_vars
    /\ WF_vars(InConnect)
    /\ WF_vars(InShutdown)
    /\ WF_vars(InAccept)

\* The codec on its own. The header fields and the payload bytes take the
\* ends of their ranges and values next to them.
Field16 == {0, 1, 255, 256, 65535}
Field8 == {0, 1, 255}
Payloads == { <<>>, <<0, 0>>, <<255, 255>>, <<0, 1, 255, 254>> }
CksumInputs == UNION { [1..n -> Field8] : n \in 0..4 }

\* The two-pass build of a segment (lossy_layer_tick, lines 175-186) from the
\* field values and the payload: ev.raw is what the first pass checksums,
\* ev.sent holds the segment.
CodecBuild(seqnum, acknum, f, w, payload) ==
    LET b == TwoPass(seqnum, acknum, f.syn, f.ack, f.fin, w, w, Len(payload), payload, payload)
        first == build_segment_header(seqnum, acknum, f.syn, f.ack, f.fin, w, Len(payload), 0)
                    \o payload
    IN
    /\ ev' = Event("build", first, "", "", IF b.ok THEN <<b.raw>> ELSE <<>>, ~b.ok)
    /\ UNCHANGED << clientVars, clientApp, serverVars, serverApp, c2s, s2c, envVars, histVars >>

\* One call of in_cksum(bytes).
CodecCksum(bytes) ==
    /\ ev' = [Event("in_cksum", bytes, "", "", <<>>, CksumRaises(bytes))
                EXCEPT !.ret = IF CksumRaises(bytes) THEN None ELSE in_cksum(bytes)]
    /\ UNCHANGED << clientVars, clientApp, serverVars, serverApp, c2s, s2c, envVars, histVars >>

\* A run is one call.
NextCodec ==
    \/ \E seqnum \in Field16, acknum \in Field16, f \in Flags, w \in Field8, payload \in Payloads :
          ev.op = "init" /\ CodecBuild(seqnum, acknum, f, w, payload)
    \/ \E bytes \in CksumInputs : ev.op = "init" /\ CodecCksum(bytes)
SpecCodec == InitSolo /\ [][NextCodec]_vars

\* ------------------------------------------------------------------ claims
Established == c_state = "ESTABLISHED" /\ s_state = "ESTABLISHED"

IsPrefix(a, b) == Len(a) <= Len(b) /\ SubSeq(b, 1, Len(a)) = a

\* C1: in every reachable state of a pair over the faulty transport, the
\* chunks the server has put into its receive buffer are a prefix of the chunks
\* the client's tick has popped from its send buffer, starting with the first.
C1_DeliveredPrefixOfPopped == IsPrefix(delivered, popped)

\* C1, the state that refutes it: two chunks were popped and sent, and the
\* server's buffer history holds the second alone.
C1_FirstChunkSkipped == Len(popped) = 2 /\ delivered = << popped[2] >>

\* C2: with both ends established, fair ticks and no loss, the first k chunks
\* send() accepted are eventually the first k chunks the server enqueued, or
\* an end reaches CLOSED.
C2_AcceptedEventuallyDelivered ==
    \A k \in 1..MaxChunks :
        (Established /\ Len(accepted) >= k)
            ~> (\/ Len(accepted) >= k /\ IsPrefix(SubSeq(accepted, 1, k), delivered)
                \/ c_state = "CLOSED"
                \/ s_state = "CLOSED")

\* C2, the state that refutes it: both ends established, a chunk accepted,
\* popped and in transit, and nothing enqueued at the server.
C2_AcceptedUndelivered ==
    /\ Established
    /\ accepted # <<>> /\ popped # <<>> /\ segments_in_transit # <<>>
    /\ delivered = <<>>
    /\ ev.op = "s_recv" /\ ev.st = "ESTABLISHED" /\ ~ev.exc

\* C3: with no SYN lost, connect() against accept() brings both ends to
\* ESTABLISHED; on the way the server enters SYN_RCVD only from ACCEPTING, on
\* a SYN, and ESTABLISHED only from SYN_RCVD, on an ACK, and the client leaves
\* SYN_SENT for ESTABLISHED only with the SYN+ACK seen.
C3_LosslessHandshake ==
    /\ (drops_left = 0) => <>Established
    /\ [][(s_state' = "SYN_RCVD" /\ s_state # "SYN_RCVD")
            => (s_state = "ACCEPTING" /\ ev'.op = "s_recv" /\ SYN(Header(ev'.raw)))]_vars
    /\ [][(s_state' = "ESTABLISHED" /\ s_state # "ESTABLISHED")
            => (s_state = "SYN_RCVD" /\ ev'.op = "s_recv" /\ ACK(Header(ev'.raw)))]_vars
    /\ [][(c_state' = "ESTABLISHED" /\ c_state # "ESTABLISHED")
            => (c_state = "SYN_SENT" /\ synack_recv)]_vars

\* C3, its case: both ends established in the first round of connect().
C3_EstablishedFirstRound == Established /\ c_round = 0 /\ drops_left = 0

\* C4: with the first N SYNs lost, 0 < N < RETRIES, and nothing lost
\* afterwards, both ends still reach ESTABLISHED.
C4_HandshakeAfterLostSyns ==
    (drops_left > 0 /\ drops_left < RETRIES) => <>Established

\* C4, its case: both ends established after connect() sent the SYN again.
C4_EstablishedAfterRetry == Established /\ c_round > 0 /\ drops_left = 0

\* C5: on a connection without faults, one chunk passed to send() and then
\* shutdown(): when the server has left ESTABLISHED for CLOSING, that chunk is
\* what its receive buffer was given, once.
C5_DataBeforeDisconnect ==
    (faults_left = MaxFaults /\ Len(accepted) = 1 /\ calls.shutdown = 1 /\ s_state = "CLOSING")
        => delivered = accepted

\* C5, the state that refutes it: no fault has occurred, the server is in
\* CLOSING, and the chunk send() accepted is still in the client's send buffer.
C5_ClosingBeforeData ==
    /\ faults_left = MaxFaults /\ calls.shutdown = 1 /\ s_state = "CLOSING"
    /\ Len(accepted) = 1 /\ sendbuf = accepted /\ delivered = <<>>

C7_CumulativeAckTrims ==
    [][\A segment \in ClientInbound :
            LET N == Header(segment).acknum
                Kept(entry) == entry.seqnum >= N
            IN  (/\ c_state = "ESTABLISHED"
                 /\ Header(segment).ack_set
                 /\ N > last_rec_ack
                 /\ ClientForged(segment))
                    => segments_in_transit' = SelectSeq(segments_in_transit, Kept)]_vars

\* C7, the state that refutes it: an ACK was handled, the handler raised, and
\* an entry the recorded ack covers is still in transit.
C7_CoveredEntryLeft ==
    /\ ev.op = "c_recv" /\ ev.exc
    /\ \E i \in 1..Len(segments_in_transit) : segments_in_transit[i].seqnum < last_rec_ack

\* C8: the server in ESTABLISHED, handed a data segment whose seqnum is not
\* acknum + 1, keeps acknum and its receive buffer and sends exactly one ACK
\* that carries acknum.
C8_OutOfOrderDupAck ==
    [][\A segment \in ServerInbound :
            (/\ s_state = "ESTABLISHED"
             /\ NOFLAG(Header(segment))
             /\ Header(segment).seqnum # s_acknum + 1
             /\ Awake
             /\ ServerForged(segment))
                => (/\ s_acknum' = s_acknum
                    /\ recvbuf' = recvbuf
                    /\ Len(ev'.sent) = 1
                    /\ Header(ev'.sent[1]).ack_set
                    /\ ~Header(ev'.sent[1]).syn_set
                    /\ ~Header(ev'.sent[1]).fin_set
                    /\ Header(ev'.sent[1]).acknum = s_acknum)]_vars

\* C8, the state that refutes it: in ESTABLISHED, with the window recv() left
\* behind, a segment was handed over and the handler raised with nothing sent.
C8_NoAckSent ==
    /\ ev.op = "s_recv" /\ ev.st = "ESTABLISHED" /\ ev.exc /\ ev.sent = <<>>
    /\ window > 255

\* C9: a segment whose recomputed checksum differs from its checksum field
\* changes nothing at the endpoint it reaches and is answered by nothing.
C9_BadChecksumDiscarded ==
    [][/\ (/\ ev'.op = "s_recv"
           /\ ~CksumRaises(ServerCovered(ev'.raw))
           /\ in_cksum(ServerCovered(ev'.raw)) # Header(ev'.raw).checksum)
            => (UNCHANGED << serverVars, serverApp, delivered >> /\ s2c' = s2c /\ ev'.sent = <<>>)
       /\ (/\ ev'.op = "c_recv"
           /\ ~ClientChecksumOk(ev'.raw))
            => (UNCHANGED << clientVars, clientApp >> /\ c2s' = c2s /\ ev'.sent = <<>>)]_vars

\* C9, its case: the established server was handed a segment with a bit of
\* its header flipped, whose checksum does not match.
C9_CorruptHeaderReceived ==
    /\ ev.op = "s_recv" /\ ev.tag = "hflip" /\ ev.st = "ESTABLISHED"
    /\ in_cksum(ServerCovered(ev.raw)) # Header(ev.raw).checksum

\* C10: a data segment that reaches the server with one bit of its payload
\* flipped is not enqueued and does not advance acknum.
C10_FlippedPayloadDropped ==
    [][(/\ ev'.op = "s_recv"
        /\ ev'.tag = "pflip"
        /\ NOFLAG(Header(ev'.raw))
        /\ Header(ev'.raw).datalen > 0)
            => (s_acknum' = s_acknum /\ recvbuf' = recvbuf /\ delivered' = delivered)]_vars

\* C10, the state that refutes it: the last chunk enqueued came in a segment
\* with a payload bit flipped.
C10_FlippedPayloadEnqueued ==
    /\ ev.op = "s_recv" /\ ev.tag = "pflip"
    /\ delivered # <<>>
    /\ delivered[Len(delivered)] = Chunk(ev.raw)
    /\ s_acknum = Header(ev.raw).seqnum

\* C11: a connect() that runs out of rounds without a SYN+ACK leaves the
\* client CLOSED and returns a result other than the one a connect() that
\* established returns, which is None.
C11_ConnectFailureSignalled ==
    [][(ev'.op = "connect_fail")
            => (c_state' = "CLOSED" /\ ~ev'.exc /\ ev'.ret # None)]_vars

\* C11, the state that refutes it: connect() gave up, the client is CLOSED and
\* connect() returned None.
C11_FailureReturnsNone ==
    /\ ev.op = "connect_fail" /\ ev.st = "SYN_SENT" /\ ~synack_recv
    /\ c_state = "CLOSED" /\ ev.ret = None

\* C12: while the transport has lost, duplicated and corrupted nothing, a
\* FIN+ACK handed to the client in FIN_SENT passes its test (finack_recv is
\* set), and the server leaves CLOSING for CLOSED only on an ACK.
C12_GracefulTeardown ==
    /\ [][(/\ faults_left' = MaxFaults
           /\ c_state = "FIN_SENT"
           /\ ev'.op = "c_recv"
           /\ Header(ev'.raw).ack_set
           /\ Header(ev'.raw).fin_set)
            => finack_recv']_vars
    /\ [][(/\ faults_left' = MaxFaults
           /\ s_state = "CLOSING"
           /\ s_state' = "CLOSED")
            => (ev'.op = "s_recv" /\ ACK(Header(ev'.raw)))]_vars

\* C12, the state that refutes it: with no fault so far, the server's FIN+ACK
\* was handed to the client in FIN_SENT, its checksum was right, and the
\* client has not taken it for the answer to its FIN.
C12_FinAckRejected ==
    /\ faults_left = MaxFaults
    /\ ev.op = "c_recv" /\ ev.st = "FIN_SENT" /\ ev.tag = "ok"
    /\ Header(ev.raw).ack_set /\ Header(ev.raw).fin_set
    /\ ClientChecksumOk(ev.raw)
    /\ Header(ev.raw).acknum # c_seqnum + 1
    /\ ~finack_recv

\* C13: send(data) appends to the send buffer the consecutive slices of data
\* of PAYLOAD_SIZE bytes (the last one shorter), in order, until the data is
\* used up or the buffer is full; it returns the bytes of the slices appended,
\* fewer than len(data) only with the buffer full; it raises nothing, sends
\* nothing and changes nothing else of the socket.
C13_SendAppendsSlices ==
    [][(ev'.op = "send")
            => LET data == ev'.raw
                   n == Len(sendbuf') - Len(sendbuf)
               IN  /\ n >= 0
                   /\ Len(sendbuf') <= SENDBUF_MAXSIZE
                   /\ SubSeq(sendbuf', 1, Len(sendbuf)) = sendbuf
                   /\ \A i \in 1..n :
                         /\ (i - 1) * PAYLOAD_SIZE < Len(data)
                         /\ sendbuf'[Len(sendbuf) + i] =
                                SubSeq(data, (i - 1) * PAYLOAD_SIZE + 1,
                                       Min(i * PAYLOAD_SIZE, Len(data)))
                   /\ n * PAYLOAD_SIZE >= Len(data) \/ Len(sendbuf') = SENDBUF_MAXSIZE
                   /\ ev'.ret = Min(n * PAYLOAD_SIZE, Len(data))
                   /\ ~ev'.exc
                   /\ ev'.sent = <<>>
                   /\ c2s' = c2s
                   /\ UNCHANGED << c_state, c_seqnum, c_acknum, server_window, last_rec_ack,
                                   synack_recv, finack_recv, segments_in_transit >>
                   /\ UNCHANGED clientApp]_vars

\* C13, its case: send() filled the buffer with the first slices of its data
\* and returned fewer bytes than it was given.
C13_ShortCount ==
    /\ ev.op = "send"
    /\ ev.ret > 0 /\ ev.ret < Len(ev.raw)
    /\ Len(sendbuf) = SENDBUF_MAXSIZE
    /\ Len(sendbuf[SENDBUF_MAXSIZE]) = PAYLOAD_SIZE

\* C14: whatever segments arrive, a connect() and a shutdown() under way stay
\* within RETRIES rounds and return, and an accept() under way returns.
C14_BlockingCallsReturn ==
    /\ [](c_pc # "idle" => c_round < RETRIES)
    /\ (c_pc = "connect") ~> (c_pc = "idle")
    /\ (c_pc = "shutdown") ~> (c_pc = "idle")
    /\ (s_pc # "idle") ~> (s_pc = "idle")

\* C14, the state that refutes it: accept() has sent its SYN+ACK
\* ACCEPT_RETRIES times without the final ACK and is back in ACCEPTING,
\* waiting for a SYN with a new deadline.
C14_AcceptStartsOver ==
    /\ ev.op = "accept_wake" /\ ev.st = "SYN_RCVD" /\ ev.sent = <<>>
    /\ s_pc = "wait_syn" /\ s_state = "ACCEPTING"

\* C15: for all header field values in their ranges and every payload of even
\* length, the two-pass build raises nothing and gives the segment of these
\* fields and payload whose checksum field is the checksum of the segment
\* with that field zeroed.
C15_ChecksumRoundTrip ==
    (ev.op = "build")
        => (/\ ~ev.exc
            /\ Len(ev.sent) = 1
            /\ [ev.sent[1] EXCEPT ![9] = 0, ![10] = 0] = ev.raw
            /\ in_cksum([ev.sent[1] EXCEPT ![9] = 0, ![10] = 0]) = Header(ev.sent[1]).checksum)

\* C15, the state that refutes it: the build of the segment whose fields are
\* all zero, without payload, raised.
C15_ZeroSegmentRaises ==
    ev.op = "build" /\ ev.raw = Zeros(HEADER_SIZE) /\ ev.exc /\ ev.sent = <<>>

\* C16: in_cksum of an even number of bytes raises nothing and returns, for
\* no bytes, 0, and else a value in 0..65535 that is 65535 minus the sum of the
\* 16-bit big-endian words added with end-around carry.
C16_OnesComplementChecksum ==
    (ev.op = "in_cksum" /\ Len(ev.raw) % 2 = 0)
        => LET ws == Words[ev.raw]
               Sum[i \in 0..Len(ws)] ==
                   IF i = 0 THEN 0
                   ELSE IF Sum[i - 1] + ws[i] > 65535 THEN Sum[i - 1] + ws[i] - 65535
                   ELSE Sum[i - 1] + ws[i]
           IN  /\ ~ev.exc
               /\ ev.ret \in 0..65535
               /\ ev.ret = IF ev.raw = <<>> THEN 0 ELSE 65535 - Sum[Len(ws)]

\* C16, the state that refutes it: in_cksum of the one word 1 returned 65535,
\* where 65535 - 1 is 65534.
C16_OffByOne ==
    ev.op = "in_cksum" /\ ev.raw = <<0, 1>> /\ ~ev.exc /\ ev.ret = 65535

\* C17: whatever the application calls and whatever arrives, the client's
\* state changes only from CLOSED to SYN_SENT, from SYN_SENT to ESTABLISHED or
\* CLOSED, from ESTABLISHED to FIN_SENT and from FIN_SENT to CLOSED.
C17_ClientTransitions ==
    [][(c_state' # c_state)
            => << c_state, c_state' >> \in { << "CLOSED", "SYN_SENT" >>,
                                            << "SYN_SENT", "ESTABLISHED" >>,
                                            << "SYN_SENT", "CLOSED" >>,
                                            << "ESTABLISHED", "FIN_SENT" >>,
                                            << "FIN_SENT", "CLOSED" >> }]_vars

\* C17, the state that refutes it: shutdown() was called on a CLOSED client
\* (after a connect() that gave up) and the client is in FIN_SENT.
C17_ClosedToFinSent ==
    ev.op = "shutdown" /\ ev.st = "CLOSED" /\ c_state = "FIN_SENT" /\ calls.connect = 1

\* C18: a checksum-valid segment changes the server's state only when it is,
\* in ACCEPTING, a SYN alone (to SYN_RCVD, with acknum its seqnum + 1), in
\* SYN_RCVD an ACK alone (to ESTABLISHED), in ESTABLISHED a FIN alone (to
\* CLOSING), in CLOSING an ACK alone (to CLOSED) or a FIN alone with the
\* retry counter at its bound (to CLOSED).
C18_ServerTransitions ==
    [][(ev'.op = "s_recv" /\ s_state' # s_state)
            => \A segment \in ServerInbound :
                  LET h == Header(segment)
                      SynOnly == h.syn_set /\ ~h.ack_set /\ ~h.fin_set
                      AckOnly == ~h.syn_set /\ h.ack_set /\ ~h.fin_set
                      FinOnly == ~h.syn_set /\ ~h.ack_set /\ h.fin_set
                  IN  (Awake /\ ServerForged(segment))
                          => \/ /\ s_state = "ACCEPTING" /\ SynOnly
                                /\ s_state' = "SYN_RCVD" /\ s_acknum' = h.seqnum + 1
                             \/ s_state = "SYN_RCVD" /\ AckOnly /\ s_state' = "ESTABLISHED"
                             \/ s_state = "ESTABLISHED" /\ FinOnly /\ s_state' = "CLOSING"
                             \/ s_state = "CLOSING" /\ AckOnly /\ s_state' = "CLOSED"
                             \/ /\ s_state = "CLOSING" /\ FinOnly
                                /\ fin_retries >= FIN_RETRIES /\ s_state' = "CLOSED"]_vars

\* C18, the state that refutes it: the server is in ACCEPTING and a
\* checksum-valid segment with SYN and FIN set takes it to SYN_RCVD.
C18_SynFinTakenForSyn ==
    /\ s_state = "ACCEPTING" /\ Awake
    /\ \E segment \in ServerInbound :
          /\ Header(segment).syn_set /\ Header(segment).fin_set /\ ~Header(segment).ack_set
          /\ ~CksumRaises(ServerCovered(segment))
          /\ ServerChecksumOk(segment)
          /\ ServerHandle(segment).state = "SYN_RCVD"

\* C19: the server in ESTABLISHED, handed a data segment with seqnum n =
\* acknum + 1, sends one pure ACK that carries acknum n, sets acknum to n, and
\* appends the first `length` bytes of the payload to its receive buffer when
\* that has room.
C19_InOrderAckCarriesNewAcknum ==
    [][(s_state = "ESTABLISHED" /\ ev'.op = "s_recv") =>
        \A segment \in ServerInbound :
            LET h == Header(segment)
            IN  (/\ NOFLAG(h)
                 /\ h.seqnum = s_acknum + 1
                 /\ Awake
                 /\ ServerForged(segment))
                    => (/\ Len(ev'.sent) = 1
                        /\ Header(ev'.sent[1]).ack_set
                        /\ ~Header(ev'.sent[1]).syn_set
                        /\ ~Header(ev'.sent[1]).fin_set
                        /\ Header(ev'.sent[1]).acknum = h.seqnum
                        /\ s_acknum' = h.seqnum
                        /\ (Len(recvbuf) < RECVBUF_MAXSIZE)
                              => recvbuf' = Append(recvbuf,
                                                   SubSeq(segment, HEADER_SIZE + 1,
                                                          HEADER_SIZE + h.datalen)))]_vars

\* C19, the state that refutes it: a data segment was accepted in order and
\* enqueued, acknum was advanced, and the ACK sent for it carries the acknum
\* from before.
C19_AckCarriesOldAcknum ==
    /\ ev.op = "s_recv" /\ ev.st = "ESTABLISHED" /\ ~ev.exc
    /\ recvbuf # <<>>
    /\ Len(ev.sent) = 1
    /\ Header(ev.sent[1]).ack_set /\ ~Header(ev.sent[1]).syn_set /\ ~Header(ev.sent[1]).fin_set
    /\ Header(ev.sent[1]).acknum = s_acknum - 1

\* C20: in CLOSING the retry counter is below FIN_RETRIES, and a FIN alone
\* handed to the server in CLOSING is answered by one FIN+ACK, adds one to the
\* counter and, when that makes the counter FIN_RETRIES, closes the server;
\* so a teardown sends at most 1 + FIN_RETRIES FIN+ACKs.
C20_ClosingRetriesBelowBound ==
    /\ [](s_state = "CLOSING" => fin_retries < FIN_RETRIES)
    /\ [][(s_state = "CLOSING" /\ ev'.op = "s_recv") =>
          \A segment \in ServerInbound :
              LET h == Header(segment)
              IN  (/\ ~h.syn_set /\ ~h.ack_set /\ h.fin_set
                   /\ Awake
                   /\ ServerForged(segment))
                      => (/\ Len(ev'.sent) = 1
                          /\ Header(ev'.sent[1]).ack_set
                          /\ Header(ev'.sent[1]).fin_set
                          /\ fin_retries' = fin_retries + 1
                          /\ fin_retries' <= FIN_RETRIES
                          /\ s_state' = IF fin_retries' = FIN_RETRIES
                                         THEN "CLOSED" ELSE "CLOSING")]_vars

\* C20, the state that refutes it: the server has answered FIN_RETRIES
\* duplicate FINs, the counter is at its bound and the state is still CLOSING.
C20_ClosingAtBound ==
    /\ ev.op = "s_recv" /\ ev.st = "CLOSING"
    /\ Len(ev.sent) = 1 /\ Header(ev.sent[1]).fin_set /\ Header(ev.sent[1]).ack_set
    /\ s_state = "CLOSING" /\ fin_retries = FIN_RETRIES

\* The entries a step has appended to segments_in_transit.
NewEntries == SubSeq(segments_in_transit', Len(segments_in_transit) + 1,
                     Len(segments_in_transit'))

\* C21: a tick appends an entry of seqnum s only while s - last_rec_ack <
\* server_window; in every state segments_in_transit holds at most
\* seqnum - last_rec_ack entries, and after a tick that sent new data at most
\* server_window entries.
C21_WindowBoundsInFlight ==
    /\ [](c_seqnum # None => Len(segments_in_transit) <= c_seqnum - last_rec_ack)
    /\ [][(ev'.op = "c_tick" /\ Len(segments_in_transit') > Len(segments_in_transit))
            => (/\ \A i \in 1..Len(NewEntries) :
                      NewEntries[i].seqnum - last_rec_ack < server_window
                /\ Len(segments_in_transit') <= server_window')]_vars

\* C21, the state that refutes it: a tick has just sent new data and more
\* entries are in transit than the window and than seqnum - last_rec_ack.
C21_MoreInFlightThanWindow ==
    /\ ev.op = "c_tick" /\ ev.sent # <<>> /\ segments_in_transit # <<>>
    /\ ev.sent[Len(ev.sent)] = segments_in_transit[Len(segments_in_transit)].segment
    /\ Len(segments_in_transit) > server_window
    /\ Len(segments_in_transit) > c_seqnum - last_rec_ack

\* C22: segments_in_transit is in order of seqnum with neighbours one apart
\* and its last entry has seqnum - 1; a step appends to it only at the tail
\* and only in a tick, and shortens it only from the head and only when a
\* segment is handled; no seqnum goes to two chunks.
C22_InFlightConsecutive ==
    /\ [](/\ \A i \in 1..(Len(segments_in_transit) - 1) :
                segments_in_transit[i + 1].seqnum = segments_in_transit[i].seqnum + 1
          /\ segments_in_transit # <<>> =>
                segments_in_transit[Len(segments_in_transit)].seqnum = c_seqnum - 1)
    /\ [][\/ /\ ev'.op = "c_tick"
             /\ IsPrefix(segments_in_transit, segments_in_transit')
          \/ /\ ev'.op = "c_recv"
             /\ \E k \in 0..Len(segments_in_transit) :
                   segments_in_transit' =
                       SubSeq(segments_in_transit, k + 1, Len(segments_in_transit))
          \/ segments_in_transit' = segments_in_transit]_vars

\* C22, the state that refutes it: shutdown() has moved seqnum on with data in
\* transit, and a later tick gave the next chunk a seqnum two above the last.
C22_GapInFlight ==
    /\ ev.op = "c_tick" /\ calls.shutdown > 0
    /\ \E i \in 1..(Len(segments_in_transit) - 1) :
          segments_in_transit[i + 1].seqnum > segments_in_transit[i].seqnum + 1

\* C23: a tick sends again, once each and as they are, exactly the entries
\* whose timer has run out, before any new data; it leaves the entries and
\* their order, last_rec_ack and the state alone, and seqnum moves only by
\* the new entries. An entry leaves segments_in_transit only when a segment
\* is handled and last_rec_ack is then above its seqnum.
C23_ExpiredEntriesResent ==
    [][/\ ev'.op = "c_tick" =>
          \A expired \in SUBSET (1..Len(segments_in_transit)) :
            ClientTick(expired) =>
                LET n == Cardinality(expired)
                IN  /\ Len(ev'.sent) = n + Len(NewEntries)
                    /\ \E f \in [1..n -> expired] :
                          /\ \A j, k \in 1..n : j < k => f[j] < f[k]
                          /\ \A k \in 1..n :
                                /\ ev'.sent[k] = segments_in_transit[f[k]].segment
                                /\ Header(ev'.sent[k]).seqnum =
                                       segments_in_transit[f[k]].seqnum
                    /\ \A j \in 1..Len(NewEntries) : ev'.sent[n + j] = NewEntries[j].segment
                    /\ IsPrefix(segments_in_transit, segments_in_transit')
                    /\ c_seqnum' = c_seqnum + Len(NewEntries)
                    /\ last_rec_ack' = last_rec_ack
                    /\ c_state' = c_state
       /\ \A i \in 1..Len(segments_in_transit) :
            (\A j \in 1..Len(segments_in_transit') :
                    segments_in_transit'[j] # segments_in_transit[i])
                => (ev'.op = "c_recv" /\ last_rec_ack' > segments_in_transit[i].seqnum)]_vars

\* C23, its case: with two entries in transit a tick has sent the older one
\* again and nothing else.
C23_OldestResentAlone ==
    /\ ev.op = "c_tick" /\ ~ev.exc
    /\ Len(segments_in_transit) = 2
    /\ ev.sent = << segments_in_transit[1].segment >>

\* C24: when the client in ESTABLISHED has handled a checksum-valid segment
\* and then has data in sendbuf and seqnum - last_rec_ack < server_window,
\* the handler itself has sent a new data segment.
C24_AckTriggersSend ==
    [][(/\ ev'.op = "c_recv"
        /\ c_state = "ESTABLISHED"
        /\ sendbuf # <<>>
        /\ c_seqnum - last_rec_ack' < server_window')
          => \A segment \in ClientInbound :
                ClientForged(segment) =>
                    (/\ Len(NewEntries) >= 1
                     /\ ev'.sent # <<>>
                     /\ Len(sendbuf') < Len(sendbuf))]_vars

\* C24, the state that refutes it: an ACK was handled without an error, it
\* left an entry in transit and the window open, data waits in sendbuf, and
\* the handler has sent nothing.
C24_OpenWindowNothingSent ==
    /\ ev.op = "c_recv" /\ ev.st = "ESTABLISHED" /\ ~ev.exc
    /\ segments_in_transit # <<>>
    /\ last_rec_ack = segments_in_transit[1].seqnum
    /\ sendbuf # <<>>
    /\ WindowOpen(c_seqnum)
    /\ ev.sent = <<>>

\* C25: recv() with chunks waiting returns all of them joined in the order
\* they were queued, leaves none behind, and has set window to the capacity
\* of recvbuf minus the chunks still in it, also after a single chunk.
C25_RecvDrainsAndSetsWindow ==
    [][ev'.op = "recv" =>
          (ServerRecv =>
              /\ ev'.raw = Concat(recvbuf)
              /\ received' = received \o Concat(recvbuf)
              /\ recvbuf' = <<>>
              /\ ev'.raw # <<>> => window' = RECVBUF_MAXSIZE - Len(recvbuf'))]_vars

\* C25, the state that refutes it: recv() has returned the one chunk that was
\* waiting and window is still the WINDOW of the constructor.
C25_WindowLeftAfterOneChunk ==
    /\ ev.op = "recv" /\ ev.raw = <<1, 2>>
    /\ recvbuf = <<>>
    /\ window = WINDOW

\* C26: in every state the window the server advertises and the window the
\* client has recorded fit the one-byte window field of the header.
C26_WindowsFitOneByte ==
    /\ window \in 0..255
    /\ server_window \in 0..255

\* C26, the state that refutes it: recv() has drained two chunks and left
\* window at the capacity of recvbuf.
C26_WindowIsCapacity ==
    /\ ev.op = "recv" /\ Len(ev.raw) = 4
    /\ window = RECVBUF_MAXSIZE
    /\ ~Packable(s_seqnum, s_acknum, window, 0, 0)

\* C27: the client's handler, run in ESTABLISHED on a segment that passes the
\* checksum, never raises, whatever segments_in_transit holds.
C27_AckHandledWithoutError ==
    [][(ev'.op = "c_recv" /\ ev'.st = "ESTABLISHED") => ~ev'.exc]_vars

\* C27, the state that refutes it: before any data was sent, an ACK of the
\* server reached the client in ESTABLISHED and the handler raised on the
\* empty list.
C27_RaisedOnEmptyList ==
    /\ ev.op = "c_recv" /\ ev.st = "ESTABLISHED" /\ ev.exc
    /\ Header(ev.raw).ack_set
    /\ segments_in_transit = <<>> /\ popped = <<>>
    /\ last_rec_ack = Header(ev.raw).acknum

\* The client is connected and has handled no ACK and sent no data since the
\* handshake, and data waits in sendbuf.
FreshlyConnected ==
    /\ c_state = "ESTABLISHED" /\ c_pc = "idle"
    /\ last_rec_ack = 0 /\ popped = <<>> /\ segments_in_transit = <<>>
    /\ server_window >= 1
    /\ sendbuf # <<>>

\* C28: right after the handshake, for every ISN and every advertised window
\* of at least 1, with data in sendbuf and nothing in transit, a tick sends
\* at least one data segment.
C28_FirstTickSendsData ==
    FreshlyConnected =>
        TickFill(c_seqnum, sendbuf, segments_in_transit, <<>>, popped).sent # <<>>

\* C28, the state that refutes it: send() has queued data on the fresh
\* connection, and the window test of the tick fails on seqnum = ISN + 1
\* against last_rec_ack = 0.
C28_WindowShutAfterHandshake ==
    /\ FreshlyConnected
    /\ ev.op = "send"
    /\ c_seqnum >= server_window
    /\ \A expired \in SUBSET (1..Len(segments_in_transit)) : ~ENABLED ClientTick(expired)

\* C29: a tick outside ESTABLISHED sends nothing, raises nothing and leaves
\* sendbuf, segments_in_transit and seqnum as they are.
C29_TickOnlyInEstablished ==
    [][(ev'.op = "c_tick" /\ c_state # "ESTABLISHED")
          => (/\ ev'.sent = <<>>
              /\ ~ev'.exc
              /\ sendbuf' = sendbuf
              /\ segments_in_transit' = segments_in_transit
              /\ c_seqnum' = c_seqnum)]_vars

\* C29, the state that refutes it: a tick in FIN_SENT has taken a chunk from
\* sendbuf and sent it as a new data segment.
C29_DataSentInFinSent ==
    /\ ev.op = "c_tick" /\ ev.st = "FIN_SENT" /\ ~ev.exc
    /\ segments_in_transit # <<>>
    /\ ev.sent # <<>>
    /\ ev.sent[Len(ev.sent)] = segments_in_transit[Len(segments_in_transit)].segment
    /\ segments_in_transit[Len(segments_in_transit)].seqnum = c_seqnum - 1
    /\ popped # <<>>

\* shutdown() has built and sent its FIN, which c_segment holds.
FinBuilt == calls.shutdown > 0 /\ c_segment # <<>> /\ Header(c_segment).fin_set

\* C30: however shutdown() and the ticks interleave, every data segment in
\* transit has a seqnum below the FIN's, and none has the seqnum of the ACK
\* that ends shutdown().
C30_FinAboveEveryData ==
    /\ FinBuilt =>
          \A i \in 1..Len(segments_in_transit) :
              segments_in_transit[i].seqnum < Header(c_segment).seqnum
    /\ (ev.op = "shutdown_done" /\ ev.sent # <<>>) =>
          \A i \in 1..Len(segments_in_transit) :
              segments_in_transit[i].seqnum # Header(ev.sent[1]).seqnum

\* C30, the state that refutes it: in FIN_SENT a tick has sent a new data
\* segment under the seqnum the FIN carries.
C30_DataUnderFinSeqnum ==
    /\ FinBuilt /\ c_state = "FIN_SENT"
    /\ ev.op = "c_tick" /\ ev.sent # <<>> /\ segments_in_transit # <<>>
    /\ ev.sent[Len(ev.sent)] = segments_in_transit[Len(segments_in_transit)].segment
    /\ segments_in_transit[Len(segments_in_transit)].seqnum = Header(c_segment).seqnum
    /\ ~Header(ev.sent[Len(ev.sent)]).fin_set

\* The steps in which the server sends: its handler, its tick and accept().
ServerSends == {"s_recv", "s_tick", "accept_syn_rcvd", "accept_wake"}

\* C31: every segment the server sends, whatever window it advertises, passes
\* the checksum test of the client.
C31_ServerSegmentsVerify ==
    [][ev'.op \in ServerSends =>
          \A i \in 1..Len(ev'.sent) : ClientChecksumOk(ev'.sent[i])]_vars

\* C31, the state that refutes it: an ACK of the server that advertises a
\* window other than the default reached the client in ESTABLISHED as it was
\* sent, and the client's checksum test has discarded it.
C31_IntactAckDiscarded ==
    /\ ev.op = "c_recv" /\ ev.tag = "ok" /\ ev.st = "ESTABLISHED"
    /\ ACK(Header(ev.raw))
    /\ Header(ev.raw).window = window /\ window # DEFAULT_WINDOW
    /\ ~ClientChecksumOk(ev.raw)

\* C32: every data segment a tick builds, from a chunk of any length from 1
\* to PAYLOAD_SIZE, is one on which the server's checksum over the header
\* and the payload cut to that length can be computed and equals the
\* checksum the segment carries.
C32_DataSegmentsVerify ==
    [][ev'.op = "c_tick" =>
          \A i \in 1..Len(NewEntries) :
              /\ Header(NewEntries[i].segment).datalen \in 1..PAYLOAD_SIZE
              /\ ~CksumRaises(ServerCovered(NewEntries[i].segment))
              /\ ServerChecksumOk(NewEntries[i].segment)]_vars

\* C32, the state that refutes it: a data segment with a chunk of odd length
\* reached the server as it was sent, and the checksum computation raised.
C32_OddChunkRaises ==
    /\ ev.op = "s_recv" /\ ev.tag = "ok" /\ ev.st = "ESTABLISHED"
    /\ NOFLAG(Header(ev.raw))
    /\ Header(ev.raw).datalen % 2 = 1
    /\ ev.exc /\ ev.sent = <<>>
    /\ \E i \in 1..Len(segments_in_transit) : segments_in_transit[i].segment = ev.raw

\* C33: however accept() and the segment handler interleave, accept() never
\* writes CLOSED over a SYN_RCVD the handler has set, and never writes
\* ACCEPTING over an ESTABLISHED the handler has set.
C33_AcceptKeepsNetworkState ==
    [][/\ (ev'.op = "accept_timeout" /\ s_state' = "CLOSED") => s_state # "SYN_RCVD"
       /\ (ev'.op \in {"accept_restart", "accept_wake"} /\ s_state' = "ACCEPTING")
             => s_state # "ESTABLISHED"]_vars

\* C33, the state that refutes it: a SYN took the server to SYN_RCVD after
\* accept() had seen the deadline pass, and accept() has set CLOSED and
\* returned.
C33_SynRcvdOverwritten ==
    /\ ev.op = "accept_timeout" /\ ev.st = "SYN_RCVD"
    /\ s_state = "CLOSED" /\ s_pc = "idle"
    /\ s_acknum = 1

====
